---- MODULE Spec2Model ----
(***************************************************************************)
(* Model of the multi-carrier steganographic pipeline of Exercice_2:       *)
(*   decouper_script.py            (split a file into N fragment files)    *)
(*   cacher_morceaux_dans_images.py (embed each fragment in a carrier)     *)
(*   extraire_et_executer.py       (scan a tree, extract, reassemble)      *)
(* Bytes are integers 0..255, byte strings are sequences of bytes, text is *)
(* the sequence of its ASCII codes.  An image is a record [w, h, px] whose *)
(* px is the row-major sequence of <<r, g, b>> pixels.                     *)
(***************************************************************************)
EXTENDS Integers, Sequences, FiniteSets, TLC

None == "None"

Min(a, b) == IF a < b THEN a ELSE b
Max(a, b) == IF a > b THEN a ELSE b

(***************************************************************************)
(* Bounds of the model.                                                    *)
(***************************************************************************)
MaxLen == 4
MaxParts == 3
MaxTree == 3
MaxKey == 5
MaxData == 12
MaxSplit == 7
MaxRng == 7
MaxSeed == 1
MaxPayload == 2
MaxStego == 4
MaxFiles == 11

(***************************************************************************)
(* Python primitives used by the scripts.                                  *)
(***************************************************************************)
\* s[start:stop] on a sequence, start >= 0, with Python's clamping and its
\* reading of a negative stop as len(s) + stop.
PySlice(s, start, stop) ==
    LET n == Len(s)
        e0 == IF stop < 0 THEN Max(n + stop, 0) ELSE Min(stop, n)
        b0 == Min(start, n)
    IN  IF e0 <= b0 THEN <<>> ELSE SubSeq(s, b0 + 1, e0)

\* math.ceil(a / b) for a >= 0, b > 0
Ceil(a, b) == (a + b - 1) \div b

RECURSIVE DecDigits(_)
DecDigits(v) ==
    IF v < 10 THEN <<48 + v>> ELSE DecDigits(v \div 10) \o <<48 + (v % 10)>>

\* f"{v:0{w}d}": sign-aware zero padding to a minimum width of w characters
FormatD(v, w) ==
    LET sign == IF v < 0 THEN <<45>> ELSE <<>>
        d == DecDigits(IF v < 0 THEN -v ELSE v)
        pad == Max(w - Len(d) - Len(sign), 0)
    IN  sign \o [i \in 1..pad |-> 48] \o d

\* b"".join(seqs[i] for i in 1..Len(seqs))
RECURSIVE Join(_)
Join(seqs) ==
    IF seqs = <<>> THEN <<>> ELSE Head(seqs) \o Join(Tail(seqs))

\* str.split(sep) on a single separator character: always at least one part.
\* P is the set of positions of the separator in s.
NthOf(P, k) == CHOOSE i \in P : Cardinality({j \in P : j < i}) = k - 1
SplitAt(s, P, n) ==
    [k \in 1..(n + 1) |->
        SubSeq(s, IF k = 1 THEN 1 ELSE NthOf(P, k - 1) + 1,
                  IF k = n + 1 THEN Len(s) ELSE NthOf(P, k) - 1)]
SplitOn(s, P) == SplitAt(s, P, Cardinality(P))
PySplit(s, sep) == SplitOn(s, {i \in 1..Len(s) : s[i] = sep})

\* bytes.decode("ascii", errors="ignore"): bytes >= 128 are dropped
IsAscii(c) == c < 128
DecodeAsciiIgnore(b) == SelectSeq(b, IsAscii)

IsDigit(c) == c \in 48..57
\* the ASCII characters int() skips as white space around the number
IsSpace(c) == c \in (9..13) \cup {32}

RECURSIVE LStrip(_)
LStrip(s) == IF s # <<>> /\ IsSpace(Head(s)) THEN LStrip(Tail(s)) ELSE s
RECURSIVE RStrip(_)
RStrip(s) ==
    IF s # <<>> /\ IsSpace(s[Len(s)]) THEN RStrip(SubSeq(s, 1, Len(s) - 1)) ELSE s

RECURSIVE DigitsValue(_, _)
DigitsValue(s, acc) ==
    IF s = <<>> THEN acc
    ELSE IF Head(s) = 95 THEN DigitsValue(Tail(s), acc)
    ELSE DigitsValue(Tail(s), acc * 10 + (Head(s) - 48))

\* int(text): optional white space, optional sign, decimal digits with single
\* underscores between digits.  [ok |-> FALSE] stands for ValueError.
PyInt(text) ==
    LET t == RStrip(LStrip(text))
        signed == t # <<>> /\ Head(t) \in {43, 45}
        body == IF signed THEN Tail(t) ELSE t
        n == Len(body)
        wellFormed ==
            /\ n > 0
            /\ \A i \in 1..n : IsDigit(body[i]) \/ body[i] = 95
            /\ IsDigit(body[1]) /\ IsDigit(body[n])
            /\ \A i \in 1..(n - 1) : ~(body[i] = 95 /\ body[i + 1] = 95)
    IN  IF ~wellFormed THEN [ok |-> FALSE, val |-> 0]
        ELSE [ok |-> TRUE,
              val |-> IF signed /\ Head(t) = 45
                      THEN -DigitsValue(body, 0) ELSE DigitsValue(body, 0)]

\* hashlib.sha256(data).hexdigest(): an ideal digest, equal on equal data only
compute_sha256_bytes(data) == <<"sha256", data>>

(***************************************************************************)
(* decouper_script.py                                                      *)
(***************************************************************************)
\* variant: the chunk size rounded down, the bytes past n chunks dropped
split_floor_chunks(data, n) ==
    IF n <= 0 THEN [err |-> "ValueError", chunks |-> <<>>]
    ELSE [err |-> None,
          chunks |-> [k \in 1..n |->
              PySlice(data, (k - 1) * (Len(data) \div n), k * (Len(data) \div n))]]

\* variant: the chunk size rounded down, the last chunk takes what is left
split_last_takes_rest(data, n) ==
    IF n <= 0 THEN [err |-> "ValueError", chunks |-> <<>>]
    ELSE [err |-> None,
          chunks |-> [k \in 1..n |->
              PySlice(data, (k - 1) * (Len(data) \div n),
                      IF k = n THEN Len(data) ELSE k * (Len(data) \div n))]]

\* split_bytes_into_chunks(data, n): [err |-> "ValueError"] or the chunks
split_bytes_into_chunks(data, n) ==
    IF n <= 0 THEN [err |-> "ValueError", chunks |-> <<>>]
    ELSE IF Len(data) = 0 THEN [err |-> None, chunks |-> [i \in 1..n |-> <<>>]]
    ELSE LET chunk_size == Ceil(Len(data), n)
         IN  [err |-> None,
              chunks |-> [k \in 1..n |->
                  PySlice(data, (k - 1) * chunk_size, k * chunk_size)]]

(***************************************************************************)
(* cacher_morceaux_dans_images.py                                          *)
(***************************************************************************)
MAGIC == <<83, 84, 69, 71, 124>>
Bar == 124

build_header(index, total, length) ==
    MAGIC \o FormatD(index, 4) \o <<Bar>> \o FormatD(total, 4) \o <<Bar>>
          \o FormatD(length, 8) \o <<Bar>>

\* variant: least significant bit first in each byte
bytes_to_bits_lsb_first(b) ==
    [k \in 1..(8 * Len(b)) |->
        (b[((k - 1) \div 8) + 1] \div (2 ^ ((k - 1) % 8))) % 2]

\* bytes -> bits, most significant bit first in each byte
bytes_to_bits(b) ==
    [k \in 1..(8 * Len(b)) |->
        (b[((k - 1) \div 8) + 1] \div (2 ^ (7 - ((k - 1) % 8)))) % 2]

\* the channel values of an image, pixel by pixel, R then G then B
Flatten(px) ==
    [i \in 1..(3 * Len(px)) |-> px[((i - 1) \div 3) + 1][((i - 1) % 3) + 1]]

\* variant: the capacity of all three channels whatever the channel count
capacity_bits_all_channels(img, channels) == img.w * img.h * 3

capacity_bits(img, channels) == img.w * img.h * channels

\* variant: the least-significant bits after the payload are cleared
embed_lsb_clears_rest(img, payload, channels) ==
    LET flat == Flatten(img.px)
        bits == bytes_to_bits(payload)
        needed == Len(bits)
        flat2 == [i \in 1..Len(flat) |->
                     (flat[i] - (flat[i] % 2)) + (IF i <= needed THEN bits[i] ELSE 0)]
    IN  IF needed > Len(flat)
        THEN [err |-> "ValueError", img |-> img, arg |-> img]
        ELSE [err |-> None, arg |-> img,
              img |-> [kind |-> "image", w |-> img.w, h |-> img.h,
                       px |-> [p \in 1..Len(img.px) |->
                                  <<flat2[3 * p - 2], flat2[3 * p - 1], flat2[3 * p]>>]]]

\* embed_lsb(img, payload, channels): the parameter channels is not read.
\* img is the image returned (Image.new, line 84), arg the image passed in as
\* it is after the call: the function writes to the list flat and to out only.
embed_lsb(img, payload, channels) ==
    LET flat == Flatten(img.px)
        bits == bytes_to_bits(payload)
        needed == Len(bits)
        flat2 == [i \in 1..Len(flat) |->
                     IF i <= needed
                     THEN (flat[i] - (flat[i] % 2)) + bits[i] ELSE flat[i]]
    IN  IF needed > Len(flat)
        THEN [err |-> "ValueError", img |-> img, arg |-> img]
        ELSE [err |-> None, arg |-> img,
              img |-> [kind |-> "image", w |-> img.w, h |-> img.h,
                       px |-> [p \in 1..Len(img.px) |->
                                  <<flat2[3 * p - 2], flat2[3 * p - 1], flat2[3 * p]>>]]]

(***************************************************************************)
(* extraire_et_executer.py                                                 *)
(***************************************************************************)
\* bits -> bytes, most significant bit first; an incomplete last byte is dropped
bits_to_bytes(bits) ==
    [j \in 1..(Len(bits) \div 8) |->
        bits[8 * j - 7] * 128 + bits[8 * j - 6] * 64 + bits[8 * j - 5] * 32
        + bits[8 * j - 4] * 16 + bits[8 * j - 3] * 8 + bits[8 * j - 2] * 4
        + bits[8 * j - 1] * 2 + bits[8 * j]]

StartsWith(b, prefix) ==
    Len(b) >= Len(prefix) /\ \A i \in 1..Len(prefix) : b[i] = prefix[i]

\* the least-significant bits of the first k channel values
ReadLsb(flat, k) == [i \in 1..k |-> flat[i] % 2]

\* what extract_header_and_payload_from_image returns as None
NoFragment == [found |-> FALSE, idx |-> 0, tot |-> 0, data |-> <<>>]

\* variant: the length check leaves the header out and the read stops at the
\* end of the image
ExtractPayload_ignores_header(flat, idx, tot, ln, header_len) ==
    IF ln * 8 > Len(flat) THEN NoFragment
    ELSE [found |-> TRUE, idx |-> idx, tot |-> tot,
          data |-> PySlice(bits_to_bytes(ReadLsb(flat,
                               Min(Len(flat), Max((header_len + ln) * 8, 0)))),
                           header_len, header_len + ln)]

\* lines 85-96: the header is parsed; its length is measured by re-encoding
\* it, the declared length is checked against the image and the payload read
ExtractPayload(flat, idx, tot, ln, header_len) ==
    IF (header_len + ln) * 8 > Len(flat) THEN NoFragment
    ELSE [found |-> TRUE, idx |-> idx, tot |-> tot,
          data |-> PySlice(bits_to_bytes(ReadLsb(flat, Max((header_len + ln) * 8, 0))),
                           header_len, header_len + ln)]

\* lines 77-84: int() of the three fields, None when one of them is no number
ParseFields(flat, idx, tot, ln) ==
    IF ~(idx.ok /\ tot.ok /\ ln.ok) THEN NoFragment
    ELSE ExtractPayload(flat, idx.val, tot.val, ln.val,
                        Len(build_header(idx.val, tot.val, ln.val)))

\* lines 75-76: the parts seen in the window read last
ParseParts(flat, parts) ==
    IF Len(parts) < 5 THEN NoFragment
    ELSE ParseFields(flat, PyInt(parts[2]), PyInt(parts[3]), PyInt(parts[4]))

\* lines 55 and 71: the number of least-significant bits a probe of `window`
\* bytes reads, from position 0 on
ProbeBits(flat, window) == Min(Len(flat), window * 8)

\* the bytes held by the least-significant bits of the first `window` bytes
ProbeWindow(flat, window) == bits_to_bytes(ReadLsb(flat, ProbeBits(flat, window)))

\* variant: the second read is of four times the size
RetryWindow_quadruple(flat, parts1, max_header_bytes) ==
    IF Len(parts1) < 5
    THEN ParseParts(flat, PySplit(DecodeAsciiIgnore(
                              ProbeWindow(flat, max_header_bytes * 4)), Bar))
    ELSE ParseParts(flat, parts1)

\* lines 66-74: fewer than 5 parts in the first window: one read of twice the size
RetryWindow(flat, parts1, max_header_bytes) ==
    IF Len(parts1) < 5
    THEN ParseParts(flat, PySplit(DecodeAsciiIgnore(
                              ProbeWindow(flat, max_header_bytes * 2)), Bar))
    ELSE ParseParts(flat, parts1)

\* variant: the magic constant is not compared
ProbeHeader_no_magic(flat, header_bytes, max_header_bytes) ==
    RetryWindow(flat, PySplit(DecodeAsciiIgnore(header_bytes), Bar),
                max_header_bytes)

\* lines 55-66: the first window, the magic constant, the split on "|"
ProbeHeader(flat, header_bytes, max_header_bytes) ==
    IF ~StartsWith(header_bytes, MAGIC) THEN NoFragment
    ELSE RetryWindow(flat, PySplit(DecodeAsciiIgnore(header_bytes), Bar),
                     max_header_bytes)

ExtractFlat(flat, max_header_bytes) ==
    ProbeHeader(flat, ProbeWindow(flat, max_header_bytes), max_header_bytes)

\* extract_header_and_payload_from_image: None, or the fragment (idx, tot, data).
\* A file Image.open cannot read raises inside the try and gives None.
extract_header_and_payload_from_image(file, max_header_bytes) ==
    IF file.kind # "image" THEN NoFragment
    ELSE ExtractFlat(Flatten(file.px), max_header_bytes)

\* variant: the fragments below the first gap are written, a gap is not an error
reconstruct_up_to_gap(pieces) ==
    IF DOMAIN pieces = {}
    THEN [err |-> "empty", missing |-> <<>>, blob |-> <<>>]
    ELSE LET first == CHOOSE i \in 1..(Cardinality(DOMAIN pieces) + 1) :
                          /\ i \notin DOMAIN pieces
                          /\ \A j \in 1..(i - 1) : j \in DOMAIN pieces
         IN  [err |-> None, missing |-> <<>>,
              blob |-> Join([i \in 1..(first - 1) |-> pieces[i]])]

\* variant: only the first missing index is reported
reconstruct_first_missing(pieces) ==
    IF DOMAIN pieces = {}
    THEN [err |-> "empty", missing |-> <<>>, blob |-> <<>>]
    ELSE
    LET max_index == CHOOSE m \in DOMAIN pieces : \A k \in DOMAIN pieces : k <= m
        absent == (1..max_index) \ DOMAIN pieces
    IN  IF absent # {}
        THEN [err |-> "missing",
              missing |-> <<CHOOSE i \in absent : \A j \in absent : i <= j>>,
              blob |-> <<>>]
        ELSE [err |-> None, missing |-> <<>>,
              blob |-> Join([i \in 1..Max(max_index, 0) |-> pieces[i]])]

\* variant: the fragments present are joined, a gap is not an error
reconstruct_skip_gaps(pieces) ==
    IF DOMAIN pieces = {}
    THEN [err |-> "empty", missing |-> <<>>, blob |-> <<>>]
    ELSE [err |-> None, missing |-> <<>>,
          blob |-> Join([k \in 1..Cardinality(DOMAIN pieces) |->
                            pieces[CHOOSE i \in DOMAIN pieces :
                                Cardinality({j \in DOMAIN pieces : j < i}) = k - 1]])]

\* reconstruct_script(pieces, out_script): the ValueError it raises, or the
\* bytes it writes to out_script
reconstruct_script(pieces) ==
    IF DOMAIN pieces = {}
    THEN [err |-> "empty", missing |-> <<>>, blob |-> <<>>]
    ELSE
    LET max_index == CHOOSE m \in DOMAIN pieces : \A k \in DOMAIN pieces : k <= m
        RECURSIVE Missing(_)
        Missing(i) ==
            IF i > max_index THEN <<>>
            ELSE (IF i \notin DOMAIN pieces THEN <<i>> ELSE <<>>) \o Missing(i + 1)
        missing == Missing(1)
    IN  IF missing # <<>>
        THEN [err |-> "missing", missing |-> missing, blob |-> <<>>]
        ELSE [err |-> None, missing |-> <<>>,
              blob |-> Join([i \in 1..Max(max_index, 0) |-> pieces[i]])]


(***************************************************************************)
(* Inputs of the runs: source buffers, carrier directories, scanned files. *)
(***************************************************************************)
BaseBytes == <<72, 124, 255, 49, 0, 83, 10, 128>>
ByteAt(i) == BaseBytes[((i - 1) % 8) + 1]
\* the source files tried: every prefix of one byte pattern, up to MaxLen bytes
\* b"Hello World!"
Hello == <<72, 101, 108, 108, 111, 32, 87, 111, 114, 108, 100, 33>>
Buffers == {[i \in 1..k |-> ByteAt(i)] : k \in 0..MaxLen} \cup {Hello}

PartsArgs == (-1)..MaxParts
ChannelArgs == 0..4

Carrier(k, w, h) ==
    [kind |-> "image", w |-> w, h |-> h,
     px |-> [p \in 1..(w * h) |->
                <<(k * 37 + p * 3) % 256, (p * 5 + k) % 256, (p * 7 + 11 * k) % 256>>]]
Unreadable == [kind |-> "broken", w |-> 0, h |-> 0, px |-> <<>>]
Vanished == [kind |-> "vanished", w |-> 0, h |-> 0, px |-> <<>>]

DirKinds == {"small", "medium", "large", "mixed", "broken", "vanished", "absent"}
\* the sorted listing of a source-image directory holding m files; the glob of
\* a directory that does not exist lists nothing
SrcDir(kind, m) ==
    IF kind = "absent" THEN <<>> ELSE
    [k \in 1..m |->
        CASE kind = "small" -> Carrier(k, 8, 8)
          [] kind = "medium" -> Carrier(k, 10, 10)
          [] kind = "large" -> Carrier(k, 8, 25)
          [] kind = "mixed" ->
                 IF k % 3 = 1 THEN Carrier(k, 8, 25)
                 ELSE IF k % 3 = 2 THEN Carrier(k, 10, 10) ELSE Carrier(k, 8, 8)
          [] kind = "broken" -> IF k = 2 THEN Unreadable ELSE Carrier(k, 10, 10)
          [] kind = "vanished" -> IF k = 2 THEN Vanished ELSE Carrier(k, 10, 10)]

\* image files of the scanned tree that no run of the embed stage wrote
Extras ==
    << Unreadable,
       Carrier(7, 1, 1),
       Carrier(8, 8, 8),
       embed_lsb(Carrier(9, 8, 9), MAGIC \o <<48, 48, 120, 49, Bar, 51, Bar>>, 3).img,
       embed_lsb(Carrier(10, 8, 9), build_header(2, 3, 1) \o <<88>>, 3).img,
       embed_lsb(Carrier(11, 8, 9), build_header(4, 5, 1) \o <<89>>, 3).img,
       embed_lsb(Carrier(12, 8, 9),
                 <<88>> \o Tail(build_header(1, 3, 1)) \o <<90>>, 3).img,
       embed_lsb(Carrier(13, 8, 9), build_header(3, 4, 1) \o <<91>>, 3).img >>
ExtraNames == {<<"extra", k, 0>> : k \in 1..Len(Extras)}

VARIABLES
    pc,             \* the stage about to run, or the loop a stage is in
    src,            \* the source file: [exists, data]
    N,              \* split stage: --parts
    partsDir,       \* fragment directory: [exists, files: i -> bytes of partie_i.txt]
    shaFile,        \* sha256_original.txt: NoFile, or the digest it holds
    splitExit,      \* exit code of the split stage (NotRun before it ran)
    splitErr,       \* the exception decouper_script raised, or None
    splitOk,        \* value returned by decouper_script
    channels,       \* embed stage: --channels
    images,         \* embed stage: sorted listing of the source images
    total,          \* embed stage: len(parts)
    idx,            \* embed stage: loop index
    dstDir,         \* stego directory: file name -> image
    embedExit,      \* exit code of the embed stage
    others,         \* image files under the scanned root that are no stego output: name -> content
    visited,        \* scan stage: the listed images visited so far
    img,            \* scan stage: the image visited last
    pieces,         \* scan stage: index -> payload
    expected_total, \* scan stage: <<>> for None, or <<total of the first fragment>>
    out_script,     \* the reconstructed file: [exists, data]
    scanExit,       \* exit code of the scan stage
    verification,   \* scan stage: None, "OK" or "ECHEC"
    executed,       \* scan stage: the reconstructed script was run
    run_after,      \* scan stage: --run
    mode,           \* distribute stage: --mode
    seed,           \* distribute stage: --seed, <<>> for None or <<s>>
    dry,            \* distribute stage: --dry
    mapping_dict,   \* distribute stage: file name -> target read from the mapping file
    rng,            \* distribute stage: state of the generator of module random
    di,             \* distribute stage: position in the loop over the images
    disk,           \* directories and files of the simulated computer: [dirs, files]
    written,        \* distribute stage: [dirs, files] created or written by this run
    plan,           \* distribute stage: the placements printed by this run
    distExit,       \* exit code of the distribute stage
    previous,       \* <<>>, or the record of an earlier run of the distribute stage
    log,            \* what the last step printed
    call, ret       \* argument and result of a function applied on its own

vars == <<pc, src, N, partsDir, shaFile, splitExit, splitErr, splitOk, channels, images, total,
          idx, dstDir, embedExit, others, visited, img, pieces, expected_total, out_script,
          scanExit, verification, executed, run_after, mode, seed, dry, mapping_dict, rng,
          di, disk, written, plan, distExit, previous, log, call, ret>>

splitVars == <<N, partsDir, shaFile, splitExit, splitErr, splitOk>>
embedVars == <<channels, images, total, idx, dstDir, embedExit>>
scanVars == <<visited, img, pieces, expected_total, out_script, scanExit,
              verification, executed, run_after>>
distVars == <<mode, seed, dry, mapping_dict, rng, di, disk, written, plan, distExit,
              previous>>
pureVars == <<call, ret>>

EmptyMap == <<>>
NotRun == -1
NoFile == <<>>
NoDir == [exists |-> FALSE, files |-> EmptyMap]
NoImage == <<>>
NoScript == [exists |-> FALSE, data |-> <<>>]
NoDisk == [dirs |-> {}, files |-> EmptyMap]
NoWrite == [dirs |-> {}, files |-> {}]

IdleInit ==
    /\ N = 0 /\ partsDir = NoDir /\ shaFile = NoFile /\ splitExit = NotRun
    /\ splitErr = None /\ splitOk = FALSE
    /\ channels = 0 /\ images = <<>> /\ total = 0 /\ idx = 0
    /\ dstDir = EmptyMap /\ embedExit = NotRun
    /\ visited = {} /\ img = NoImage /\ pieces = EmptyMap /\ expected_total = <<>>
    /\ out_script = NoScript /\ scanExit = NotRun /\ verification = None
    /\ executed = FALSE /\ run_after = FALSE /\ log = {}
    /\ mode = "random" /\ seed = <<>> /\ dry = FALSE /\ mapping_dict = EmptyMap
    /\ rng = 0 /\ di = 0 /\ disk = NoDisk /\ written = NoWrite /\ plan = <<>>
    /\ distExit = NotRun /\ previous = <<>>
    /\ call = None /\ ret = None

Init ==
    /\ pc = "split"
    /\ \E e \in BOOLEAN, d \in Buffers : src = [exists |-> e, data |-> d]
    /\ others = EmptyMap
    /\ IdleInit

(***************************************************************************)
(* Split stage: decouper_script(fichier_source, dossier_sortie, N)         *)
(***************************************************************************)
\* lines 84-85: main() catches nothing, so an exception raised by
\* decouper_script ends the interpreter with a traceback and exit code 1,
\* whatever the exception
UncaughtExit(exc) == 1

\* lines 42 and 44: the exceptions decouper_script raises
SplitFailures == {"ValueError", "FileNotFoundError"}

\* variant: only a count of zero or less is refused
PartsRefused_nonpositive(n) == n <= 0

\* line 41: the fragment count the stage refuses
PartsRefused(n) == n < 3

Split ==
    /\ pc = "split"
    /\ pc' = "embed"
    /\ \E n \in PartsArgs :
         /\ N' = n
         /\ IF PartsRefused(n)
            THEN /\ splitExit' = UncaughtExit("ValueError") /\ splitErr' = "ValueError"
                 /\ UNCHANGED <<partsDir, shaFile, splitOk>>
                 /\ log' = {}
            ELSE IF ~src.exists
            THEN /\ splitExit' = UncaughtExit("FileNotFoundError")
                 /\ splitErr' = "FileNotFoundError"
                 /\ UNCHANGED <<partsDir, shaFile, splitOk>>
                 /\ log' = {}
            ELSE IF split_bytes_into_chunks(src.data, n).err # None
            THEN /\ splitExit' = UncaughtExit("ValueError") /\ splitErr' = "ValueError"
                 /\ UNCHANGED <<partsDir, shaFile, splitOk>>
                 /\ log' = {}
            ELSE /\ partsDir' = [exists |-> TRUE,
                                 files |-> split_bytes_into_chunks(src.data, n).chunks]
                 /\ shaFile' = compute_sha256_bytes(src.data)
                 /\ splitOk' = (Join(split_bytes_into_chunks(src.data, n).chunks) = src.data)
                 /\ splitExit' = 0 /\ splitErr' = None
                 /\ log' = {[msg |-> "cree", n |-> i] : i \in 1..n}
    /\ UNCHANGED <<src, others, embedVars, scanVars, distVars, pureVars>>

(***************************************************************************)
(* Embed stage: main() of cacher_morceaux_dans_images.py                   *)
(***************************************************************************)
\* sorted(parts_dir.glob("partie_*.txt"), key=natural_key): the file numbers
\* in ascending numeric order
RECURSIVE SortedNumbers(_)
SortedNumbers(S) ==
    IF S = {} THEN <<>>
    ELSE LET m == CHOOSE x \in S : \A y \in S : x <= y
         IN  <<m>> \o SortedNumbers(S \ {m})

\* decouper_script.py line 56: the name f"partie_{i}.txt" as ASCII codes
PartName(i) ==
    <<112, 97, 114, 116, 105, 101, 95>> \o DecDigits(i) \o <<46, 116, 120, 116>>

\* the length of the longest prefix of s made of digits (d) or of non-digits
RECURSIVE RunLen(_, _)
RunLen(s, d) ==
    IF s = <<>> \/ IsDigit(Head(s)) # d THEN 0 ELSE 1 + RunLen(Tail(s), d)

\* re.split(r'(\d+)', name) with int() applied to the digit runs: texts and
\* numbers in turn, a text (possibly empty) first and last
RECURSIVE KeyFrom(_, _)
KeyFrom(s, d) ==
    LET k == RunLen(s, d)
        rest == SubSeq(s, k + 1, Len(s))
    IN  IF d
        THEN <<[num |-> TRUE, val |-> DigitsValue(SubSeq(s, 1, k), 0), text |-> <<>>]>>
                 \o KeyFrom(rest, FALSE)
        ELSE <<[num |-> FALSE, val |-> 0, text |-> SubSeq(s, 1, k)]>>
                 \o (IF rest = <<>> THEN <<>> ELSE KeyFrom(rest, TRUE))

natural_key(name) == KeyFrom(name, FALSE)

\* x < y for two texts, Python's way: the first position where they differ
\* decides, a proper prefix is smaller
TextLess(x, y) ==
    \/ \E i \in 1..Min(Len(x), Len(y)) :
          /\ \A j \in 1..(i - 1) : x[j] = y[j]
          /\ x[i] < y[i]
    \/ /\ Len(x) < Len(y)
       /\ \A j \in 1..Len(x) : x[j] = y[j]

\* two elements at the same position of two keys are both texts or both numbers
ElemLess(a, b) ==
    IF a.num THEN a.val < b.val ELSE TextLess(a.text, b.text)

\* x < y for two keys, compared as lists in the same way
ListLess(x, y) ==
    \/ \E i \in 1..Min(Len(x), Len(y)) :
          /\ \A j \in 1..(i - 1) : x[j] = y[j]
          /\ ElemLess(x[i], y[i])
    \/ /\ Len(x) < Len(y)
       /\ \A j \in 1..Len(x) : x[j] = y[j]

KeyLess(m, n) == ListLess(natural_key(m), natural_key(n))

\* sorted(names, key=natural_key): a stable sort of the listing
RECURSIVE SortedNatural(_)
SortedNatural(names) ==
    IF names = <<>> THEN <<>>
    ELSE LET before == SortedNatural(SubSeq(names, 1, Len(names) - 1))
             x == names[Len(names)]
             k == Cardinality({i \in 1..Len(before) : ~KeyLess(x, before[i])})
         IN  SubSeq(before, 1, k) \o <<x>> \o SubSeq(before, k + 1, Len(before))

\* glob("partie_*.txt") over the fragment directory, in the order the file
\* system gives: here by descending number
GlobParts(dir) ==
    LET asc == SortedNumbers(DOMAIN dir.files)
    IN  [k \in 1..Len(asc) |-> PartName(asc[Len(asc) + 1 - k])]

\* line 116: the numbers of the fragment files in the order of the sorted listing
PartsListing(dir) ==
    LET listing == SortedNatural(GlobParts(dir))
    IN  [k \in 1..Len(listing) |->
            CHOOSE i \in DOMAIN dir.files : PartName(i) = listing[k]]

\* f"stego_{idx:02d}_" + src_img_path.stem + ".png"
OutName(i, stem) == <<"stego", i, stem>>

EmbedStart ==
    /\ pc = "embed"
    /\ \E c \in ChannelArgs, kind \in DirKinds, m \in (MaxParts - 1)..MaxParts :
         LET parts == PartsListing(partsDir)
             listing == SrcDir(kind, m)
             code == IF c < 1 \/ c > 3 THEN 2
                     ELSE IF ~partsDir.exists THEN 3
                     ELSE IF Len(parts) = 0 THEN 4
                     ELSE IF Len(listing) < Len(parts) THEN 5
                     ELSE 0
         IN  IF code # 0
             THEN /\ embedExit' = code
                  /\ pc' = "end"
                  /\ UNCHANGED <<channels, images, total, idx>>
                  /\ log' = {[msg |-> "erreur", n |-> code]}
             ELSE /\ channels' = c
                  /\ images' = listing
                  /\ total' = Len(parts)
                  /\ idx' = 1
                  /\ pc' = "embed_loop"
                  /\ embedExit' = NotRun
                  /\ log' = {}
    /\ UNCHANGED <<src, others, splitVars, dstDir, scanVars, distVars, pureVars>>

\* one iteration of the loop over the fragment files
EmbedStep ==
    /\ pc = "embed_loop"
    /\ idx <= total
    /\ LET parts == PartsListing(partsDir)
           data == partsDir.files[parts[idx]]
           header == build_header(idx, total, Len(data))
           payload == header \o data
           im == images[idx]
       IN  IF im.kind = "vanished"
           THEN \* FileNotFoundError: reported, the loop goes on
                /\ log' = {[msg |-> "introuvable", n |-> idx]}
                /\ idx' = idx + 1
                /\ UNCHANGED <<pc, channels, images, total, dstDir, embedExit>>
           ELSE IF im.kind = "broken"
           THEN /\ log' = {[msg |-> "erreur", n |-> 7]}
                /\ embedExit' = 7 /\ pc' = "scan"
                /\ UNCHANGED <<channels, images, total, idx, dstDir>>
           ELSE
           LET cap == capacity_bits(im, channels)
               need == Len(payload) * 8
               stego == embed_lsb(im, payload, channels)
           IN  IF need > cap
               THEN /\ log' = {[msg |-> "trop petite", n |-> idx]}
                    /\ embedExit' = 6 /\ pc' = "scan"
                    /\ UNCHANGED <<channels, images, total, idx, dstDir>>
               ELSE IF stego.err # None
               THEN /\ log' = {[msg |-> "erreur", n |-> 7]}
                    /\ embedExit' = 7 /\ pc' = "scan"
                    /\ UNCHANGED <<channels, images, total, idx, dstDir>>
               ELSE /\ dstDir' = [f \in DOMAIN dstDir \cup {OutName(idx, idx)} |->
                                     IF f = OutName(idx, idx) THEN stego.img
                                     ELSE dstDir[f]]
                    /\ log' = {[msg |-> "cache", n |-> idx]}
                    /\ idx' = idx + 1
                    /\ UNCHANGED <<pc, channels, images, total, embedExit>>
    /\ UNCHANGED <<src, others, splitVars, scanVars, distVars, pureVars>>

\* the loop is over: "Termine", exit code 0
EmbedEnd ==
    /\ pc = "embed_loop"
    /\ idx > total
    /\ embedExit' = 0
    /\ pc' = "scan"
    /\ log' = {[msg |-> "termine", n |-> 0]}
    /\ UNCHANGED <<src, others, splitVars, channels, images, total, idx, dstDir,
                   scanVars, distVars, pureVars>>


(***************************************************************************)
(* Scan-and-reconstruct stage: main() of extraire_et_executer.py           *)
(***************************************************************************)
\* line 40: the default of the parameter max_header_bytes
max_header_bytes == 512

\* the content of an image file of the tree
FileOf(f) == IF f[1] = "stego" THEN dstDir[f] ELSE others[f]

\* the image files that may lie under the scanned root
Pool == DOMAIN dstDir \cup DOMAIN others

\* lines 132-147: the arguments are read, the root and the listing are checked,
\* the loop is entered
ScanStart ==
    /\ pc = "scan"
    /\ \E run \in BOOLEAN : run_after' = run
    /\ \E rootExists \in BOOLEAN, listed \in BOOLEAN :
         IF ~rootExists
         THEN /\ scanExit' = 1 /\ pc' = "end"
              /\ log' = {[msg |-> "racine introuvable", n |-> 1]}
         ELSE IF ~listed
         THEN /\ scanExit' = 2 /\ pc' = "end"
              /\ log' = {[msg |-> "aucune image", n |-> 2]}
         ELSE /\ Pool # {}
              /\ pc' = "scan_loop"
              /\ log' = {}
              /\ UNCHANGED scanExit
    /\ visited' = {} /\ pieces' = EmptyMap /\ expected_total' = <<>> /\ img' = NoImage
    /\ UNCHANGED <<src, others, splitVars, embedVars, out_script, verification,
                   executed, distVars, pureVars>>

\* variant: a fragment whose total differs from the recorded one is left out
Collect_same_total_only(res) ==
    IF ~res.found
    THEN /\ log' = {}
         /\ UNCHANGED <<pieces, expected_total>>
    ELSE /\ expected_total' =
                IF expected_total = <<>> THEN <<res.tot>> ELSE expected_total
         /\ IF expected_total # <<>> /\ expected_total # <<res.tot>>
            THEN /\ log' = {[msg |-> "total incoherent", n |-> res.tot]}
                 /\ UNCHANGED pieces
            ELSE IF res.idx \in DOMAIN pieces
            THEN /\ log' = {[msg |-> "doublon", n |-> res.idx]}
                 /\ UNCHANGED pieces
            ELSE /\ pieces' = [i \in DOMAIN pieces \cup {res.idx} |->
                                  IF i = res.idx THEN res.data ELSE pieces[i]]
                 /\ log' = {[msg |-> "trouve", n |-> res.idx]}

\* variant: a later image with an index already recovered replaces the payload
Collect_last_wins(res) ==
    IF ~res.found
    THEN /\ log' = {}
         /\ UNCHANGED <<pieces, expected_total>>
    ELSE /\ expected_total' =
                IF expected_total = <<>> THEN <<res.tot>> ELSE expected_total
         /\ pieces' = [i \in DOMAIN pieces \cup {res.idx} |->
                          IF i = res.idx THEN res.data ELSE pieces[i]]
         /\ log' = (IF expected_total # <<>> /\ expected_total # <<res.tot>>
                    THEN {[msg |-> "total incoherent", n |-> res.tot]} ELSE {})
                   \cup {[msg |-> (IF res.idx \in DOMAIN pieces THEN "doublon"
                                    ELSE "trouve"),
                           n |-> res.idx]}

\* lines 150-161: what the loop body does with the result of the extraction
Collect(res) ==
    IF ~res.found
    THEN /\ log' = {}
         /\ UNCHANGED <<pieces, expected_total>>
    ELSE /\ expected_total' =
                IF expected_total = <<>> THEN <<res.tot>> ELSE expected_total
         /\ IF res.idx \in DOMAIN pieces
            THEN /\ log' = (IF expected_total # <<>> /\ expected_total # <<res.tot>>
                            THEN {[msg |-> "total incoherent", n |-> res.tot]} ELSE {})
                           \cup {[msg |-> "doublon", n |-> res.idx]}
                 /\ UNCHANGED pieces
            ELSE /\ pieces' = [i \in DOMAIN pieces \cup {res.idx} |->
                                  IF i = res.idx THEN res.data ELSE pieces[i]]
                 /\ log' = (IF expected_total # <<>> /\ expected_total # <<res.tot>>
                            THEN {[msg |-> "total incoherent", n |-> res.tot]} ELSE {})
                           \cup {[msg |-> "trouve", n |-> res.idx]}

\* one iteration of the loop over the listed images: the listing is revealed
\* file by file, in no particular order, and holds at most MaxTree files
ScanStep ==
    /\ pc = "scan_loop"
    /\ Cardinality(visited) < MaxTree
    /\ \E f \in Pool \ visited :
         /\ visited' = visited \cup {f}
         /\ img' = f
         /\ Collect(extract_header_and_payload_from_image(FileOf(f), max_header_bytes))
    /\ UNCHANGED <<pc, src, others, splitVars, embedVars, out_script, scanExit,
                   verification, executed, run_after, distVars, pureVars>>

\* variant: a script whose digest does not match is not run
ShouldRun_verified(verif, run) == run /\ verif # "ECHEC"

\* line 185: the reconstructed script is run when --run was given, whatever
\* the digest comparison printed
ShouldRun(verif, run) == run

\* after the loop: reconstruction, digest comparison, optional execution
ScanFinish ==
    /\ pc = "scan_loop"
    /\ visited # {}
    /\ pc' = "end"
    /\ IF DOMAIN pieces = {}
       THEN /\ scanExit' = 3
            /\ log' = {[msg |-> "aucun payload", n |-> 3]}
            /\ UNCHANGED <<out_script, verification, executed>>
       ELSE
       LET r == reconstruct_script(pieces)
       IN  IF r.err # None
           THEN /\ scanExit' = 4
                /\ log' = {[msg |-> "erreur reconstruction", n |-> 4,
                             missing |-> r.missing]}
                /\ UNCHANGED <<out_script, verification, executed>>
           ELSE \E sameOutdir \in BOOLEAN, returncode \in {0, 1} :
                  LET sha_recon == compute_sha256_bytes(r.blob)
                      shaExists == sameOutdir /\ shaFile # NoFile
                  IN  /\ out_script' = [exists |-> TRUE, data |-> r.blob]
                      /\ verification' =
                             IF ~shaExists THEN None
                             ELSE IF sha_recon = shaFile THEN "OK" ELSE "ECHEC"
                      /\ executed' = ShouldRun(verification', run_after)
                      /\ scanExit' = IF executed' THEN returncode ELSE 0
                      /\ log' = {[msg |-> "script reconstruit", n |-> 0]}
    /\ UNCHANGED <<visited, img, pieces, expected_total, run_after>>
    /\ UNCHANGED <<src, others, splitVars, embedVars, distVars, pureVars>>

Next ==
    \/ Split
    \/ EmbedStart
    \/ EmbedStep
    \/ EmbedEnd
    \/ ScanStart
    \/ ScanStep
    \/ ScanFinish

Spec == Init /\ [][Next]_vars


(***************************************************************************)
(* The scan stage over a tree that also holds images the embed stage did   *)
(* not write.  It starts where a run of the first two stages ended: a      *)
(* source split in MaxParts fragments, each embedded with 3 channels in a  *)
(* 10x10 carrier.                                                          *)
(***************************************************************************)
ScanBuffers == {[i \in 1..k |-> ByteAt(i)] : k \in {MaxParts, MaxParts + 1}}

InitScan ==
    /\ pc = "scan"
    /\ \E d \in ScanBuffers :
         /\ src = [exists |-> TRUE, data |-> d]
         /\ partsDir = [exists |-> TRUE,
                        files |-> split_bytes_into_chunks(d, MaxParts).chunks]
         /\ shaFile = compute_sha256_bytes(d)
         /\ dstDir = [f \in {OutName(i, i) : i \in 1..MaxParts} |->
                        embed_lsb(Carrier(f[2], 10, 10),
                                  build_header(f[2], MaxParts, Len(partsDir.files[f[2]]))
                                      \o partsDir.files[f[2]], 3).img]
    /\ N = MaxParts /\ splitExit = 0 /\ splitErr = None /\ splitOk = TRUE
    /\ channels = 3 /\ images = SrcDir("medium", MaxParts) /\ total = MaxParts
    /\ idx = MaxParts + 1 /\ embedExit = 0
    /\ others = [f \in ExtraNames |-> Extras[f[2]]]
    /\ visited = {} /\ img = NoImage /\ pieces = EmptyMap /\ expected_total = <<>>
    /\ out_script = NoScript /\ scanExit = NotRun /\ verification = None
    /\ executed = FALSE /\ run_after = FALSE /\ log = {[msg |-> "termine", n |-> 0]}
    /\ mode = "random" /\ seed = <<>> /\ dry = FALSE /\ mapping_dict = EmptyMap
    /\ rng = 0 /\ di = 0 /\ disk = NoDisk /\ written = NoWrite /\ plan = <<>>
    /\ distExit = NotRun /\ previous = <<>>
    /\ call = None /\ ret = None

NextScan ==
    \/ ScanStart
    \/ ScanStep
    \/ ScanFinish

SpecScan == InitScan /\ [][NextScan]_vars

(***************************************************************************)
(* The end of the scan stage on its own: the loop over the images is over  *)
(* with some of the fragments 1..MaxParts kept, in an output directory     *)
(* that may hold the file reconstructed by an earlier run and a digest.    *)
(***************************************************************************)
FinishPieces == {[k \in K |-> <<k, 10 + k>>] : K \in SUBSET (1..MaxParts)}
\* script_secret.py as an earlier run left it
EarlierScript == [exists |-> TRUE, data |-> <<7>>]

InitFinish ==
    /\ pc = "scan_loop"
    /\ src = [exists |-> FALSE, data |-> <<>>]
    /\ N = 0 /\ partsDir = NoDir /\ splitExit = NotRun
    /\ splitErr = None /\ splitOk = FALSE
    /\ shaFile \in {NoFile, compute_sha256_bytes(<<1, 11>>)}
    /\ channels = 0 /\ images = <<>> /\ total = 0 /\ idx = 0
    /\ dstDir = EmptyMap /\ embedExit = NotRun
    /\ others = [f \in {<<"extra", 1, 0>>} |-> Unreadable]
    /\ visited = {<<"extra", 1, 0>>} /\ img = <<"extra", 1, 0>>
    /\ pieces \in FinishPieces
    /\ expected_total = IF DOMAIN pieces = {} THEN <<>> ELSE <<MaxParts>>
    /\ out_script \in {NoScript, EarlierScript}
    /\ scanExit = NotRun /\ verification = None
    /\ executed = FALSE /\ run_after \in BOOLEAN /\ log = {}
    /\ mode = "random" /\ seed = <<>> /\ dry = FALSE /\ mapping_dict = EmptyMap
    /\ rng = 0 /\ di = 0 /\ disk = NoDisk /\ written = NoWrite /\ plan = <<>>
    /\ distExit = NotRun /\ previous = <<>>
    /\ call = None /\ ret = None

SpecFinish == InitFinish /\ [][ScanFinish]_vars

(***************************************************************************)
(* Distribute stage: main() of Simulation.py                               *)
(***************************************************************************)
\* line 79: the destinations the random and round-robin modes choose from
dest_keys == <<"vacances", "famille", "Telechargements">>

\* lines 26-31: the directories ensure_dirs makes, the root and Images included
MadeDirs == {"root", "Images", "Documents", "vacances", "famille", "Telechargements"}

\* line 41: the keys of the mapping ensure_dirs returns
DestsMapKeys == {"vacances", "famille", "Telechargements", "Documents"}
\* the same keys in the order of the mapping
DestsMapOrder == <<"vacances", "famille", "Telechargements", "Documents">>

\* lines 34-37: the files ensure_dirs writes, as <<directory, file name>>, a
\* file name being a triple like the names of the stego images
DecoyFiles ==
    {<<"Documents", <<"resume.docx", 0, 0>>>>, <<"Documents", <<"notes.txt", 0, 0>>>>,
     <<"Telechargements", <<"software.exe", 0, 0>>>>,
     <<"Telechargements", <<"wallpaper.png", 0, 0>>>>}
Decoy == [kind |-> "text", w |-> 0, h |-> 0, px |-> <<>>]

\* ensure_dirs(root): the disk after the call
ensure_dirs(d) ==
    [dirs |-> d.dirs \cup MadeDirs,
     files |-> [f \in DOMAIN d.files \cup DecoyFiles |->
                   IF f \in DecoyFiles THEN Decoy ELSE d.files[f]]]

\* list_stego_images(stego_dir): the sorted names of the stego images
list_stego_images(dir) ==
    LET numbers == SortedNumbers({f[2] : f \in DOMAIN dir})
    IN  [k \in 1..Len(numbers) |->
            CHOOSE f \in DOMAIN dir : f[2] = numbers[k]]

\* module random: a deterministic generator.  seed(s) puts it in a state that
\* depends on s only, choice(seq) reads the state and moves it on.
RngStates == 0..MaxRng
\* variant: the seed is not applied, the generator goes on from where it is
Seeded_not_applied(s) == rng

Seeded(s) == (3 * s + 1) % (MaxRng + 1)
NextRng(r) == (5 * r + 3) % (MaxRng + 1)
Choice(r, seq) == seq[(r % Len(seq)) + 1]

ModeArgs == {"random", "roundrobin", "mapping"}
SeedArgs == {<<>>} \cup {<<k>> : k \in 0..MaxSeed}

\* the mapping files tried: fragment 1 to a known key, fragment 2 to a path
\* that is no key, fragment 3 with an empty target, the others absent
MappingTables ==
    { EmptyMap,
      [f \in {OutName(1, 1)} |-> "Documents"],
      [f \in {OutName(i, i) : i \in 1..3} |->
          IF f[2] = 1 THEN "vacances" ELSE IF f[2] = 2 THEN "ailleurs" ELSE ""] }
\* --mapping: not given, a path that is no file, or a file holding a table
MappingArgs ==
    {[given |-> FALSE, isFile |-> FALSE, table |-> EmptyMap],
     [given |-> TRUE, isFile |-> FALSE, table |-> EmptyMap]}
    \cup {[given |-> TRUE, isFile |-> TRUE, table |-> t] : t \in MappingTables}

\* lines 137-169: arguments, ensure_dirs, the listing, the mapping file, and
\* the first lines of simulate_copy up to its loop
DistStart ==
    /\ pc = "dist"
    /\ \E m \in ModeArgs, s \in SeedArgs, d \in BOOLEAN :
         /\ mode' = m /\ seed' = s /\ dry' = d
         /\ disk' = ensure_dirs(disk)
         /\ written' = [dirs |-> MadeDirs \ disk.dirs, files |-> DecoyFiles]
         /\ plan' = <<>>
         /\ IF DOMAIN dstDir = {}
            THEN /\ distExit' = 1 /\ pc' = "dist_end"
                 /\ log' = {[msg |-> "aucune image stego", n |-> 1]}
                 /\ UNCHANGED <<mapping_dict, rng, di>>
            ELSE IF m = "mapping"
            THEN \E a \in MappingArgs :
                   IF ~a.given
                   THEN /\ distExit' = 2 /\ pc' = "dist_end"
                        /\ log' = {[msg |-> "aucun --mapping", n |-> 2]}
                        /\ UNCHANGED <<mapping_dict, rng, di>>
                   ELSE IF ~a.isFile
                   THEN /\ distExit' = 3 /\ pc' = "dist_end"
                        /\ log' = {[msg |-> "erreur lecture mapping", n |-> 3]}
                        /\ UNCHANGED <<mapping_dict, rng, di>>
                   ELSE /\ mapping_dict' = a.table
                        /\ distExit' = NotRun /\ pc' = "dist_loop" /\ di' = 1
                        /\ log' = {}
                        /\ UNCHANGED rng
            ELSE /\ distExit' = NotRun /\ pc' = "dist_loop" /\ di' = 1
                 /\ log' = {}
                 /\ UNCHANGED mapping_dict
                 /\ IF m = "random"
                    THEN IF s # <<>> THEN rng' = Seeded(s[1])
                         ELSE \E e \in RngStates : rng' = e
                    ELSE UNCHANGED rng
    /\ UNCHANGED <<src, others, splitVars, embedVars, scanVars, previous, pureVars>>

\* lines 86-91, 96-101, 116-122: the placement of one image is printed and,
\* unless the run is a dry run, the image is copied (mapping mode makes the
\* destination directory first).  shutil.copy2 may raise: main then exits 4.
PlaceImage(name, dest, makeDir) ==
    IF dry
    THEN /\ plan' = Append(plan, [name |-> name, dest |-> dest])
         /\ log' = {[msg |-> "DRY copier", n |-> name[2]]}
         /\ di' = di + 1
         /\ UNCHANGED <<pc, disk, written, distExit>>
    ELSE \E raises \in BOOLEAN :
           IF raises \/ (~makeDir /\ dest \notin disk.dirs)
           THEN /\ distExit' = 4 /\ pc' = "dist_end"
                /\ log' = {[msg |-> "erreur simulation", n |-> 4]}
                /\ disk' = [disk EXCEPT !.dirs = IF makeDir THEN @ \cup {dest} ELSE @]
                /\ written' = [written EXCEPT !.dirs =
                                   IF makeDir THEN @ \cup ({dest} \ disk.dirs) ELSE @]
                /\ UNCHANGED <<plan, di>>
           ELSE /\ disk' = [dirs |-> disk.dirs \cup {dest},
                            files |-> [f \in DOMAIN disk.files \cup {<<dest, name>>} |->
                                          IF f = <<dest, name>> THEN dstDir[name]
                                          ELSE disk.files[f]]]
                /\ written' = [dirs |-> written.dirs \cup ({dest} \ disk.dirs),
                                files |-> written.files \cup {<<dest, name>>}]
                /\ plan' = Append(plan, [name |-> name, dest |-> dest])
                /\ log' = {[msg |-> "copie", n |-> name[2]]}
                /\ di' = di + 1
                /\ UNCHANGED <<pc, distExit>>

\* simulate_copy: one iteration of the loop of the mode
DistStep ==
    /\ pc = "dist_loop"
    /\ di <= Len(list_stego_images(dstDir))
    /\ LET image == list_stego_images(dstDir)[di]
       IN  IF mode = "random"
           THEN /\ PlaceImage(image, Choice(rng, dest_keys), FALSE)
                /\ rng' = NextRng(rng)
           ELSE IF mode = "roundrobin"
           THEN /\ PlaceImage(image, dest_keys[((di - 1) % Len(dest_keys)) + 1], FALSE)
                /\ UNCHANGED rng
           ELSE /\ UNCHANGED rng
                /\ IF image \notin DOMAIN mapping_dict \/ mapping_dict[image] = ""
                   THEN /\ log' = {[msg |-> "aucune cible mapping", n |-> image[2]]}
                        /\ di' = di + 1
                        /\ UNCHANGED <<pc, disk, written, plan, distExit>>
                   ELSE PlaceImage(image, mapping_dict[image], TRUE)
    /\ UNCHANGED <<mode, seed, dry, mapping_dict, previous>>
    /\ UNCHANGED <<src, others, splitVars, embedVars, scanVars, pureVars>>

\* line 174: the loop is over, "Simulation terminee", exit code 0
DistEnd ==
    /\ pc = "dist_loop"
    /\ di > Len(list_stego_images(dstDir))
    /\ distExit' = 0 /\ pc' = "dist_end"
    /\ log' = {[msg |-> "simulation terminee", n |-> 0]}
    /\ UNCHANGED <<mode, seed, dry, mapping_dict, rng, di, disk, written, plan, previous>>
    /\ UNCHANGED <<src, others, splitVars, embedVars, scanVars, pureVars>>

\* the stage is run a second time on the same stego directory and root
DistAgain ==
    /\ pc = "dist_end"
    /\ previous = <<>>
    /\ previous' = <<[mode |-> mode, seed |-> seed, dry |-> dry, plan |-> plan,
                      distExit |-> distExit]>>
    /\ pc' = "dist"
    /\ log' = {}
    /\ UNCHANGED <<mode, seed, dry, mapping_dict, rng, di, disk, written, plan, distExit>>
    /\ UNCHANGED <<src, others, splitVars, embedVars, scanVars, pureVars>>

\* the stage starts on a stego directory of 0 to MaxStego images and a root
\* that does not exist yet
InitDist ==
    /\ pc = "dist"
    /\ src = [exists |-> FALSE, data |-> <<>>]
    /\ others = EmptyMap
    /\ N = 0 /\ partsDir = NoDir /\ shaFile = NoFile /\ splitExit = NotRun
    /\ splitErr = None /\ splitOk = FALSE
    /\ channels = 0 /\ images = <<>> /\ total = 0 /\ idx = 0
    /\ \E m \in 0..MaxStego :
         dstDir = [f \in {OutName(i, i) : i \in 1..m} |-> Carrier(f[2], 2, 2)]
    /\ embedExit = NotRun
    /\ visited = {} /\ img = NoImage /\ pieces = EmptyMap /\ expected_total = <<>>
    /\ out_script = NoScript /\ scanExit = NotRun /\ verification = None
    /\ executed = FALSE /\ run_after = FALSE /\ log = {}
    /\ mode = "random" /\ seed = <<>> /\ dry = FALSE /\ mapping_dict = EmptyMap
    /\ rng = 0 /\ di = 0 /\ disk = NoDisk /\ written = NoWrite /\ plan = <<>>
    /\ distExit = NotRun /\ previous = <<>>
    /\ call = None /\ ret = None

NextDist ==
    \/ DistStart
    \/ DistStep
    \/ DistEnd
    \/ DistAgain

SpecDist == InitDist /\ [][NextDist]_vars

(***************************************************************************)
(* Functions applied on their own to arguments drawn from bounded sets.    *)
(***************************************************************************)
InitCall ==
    /\ pc = "call"
    /\ src = [exists |-> FALSE, data |-> <<>>]
    /\ others = EmptyMap
    /\ IdleInit

pipelineVars == <<src, others, splitVars, embedVars, scanVars, distVars, log>>

\* split_bytes_into_chunks(data, n)
CallSplit ==
    /\ pc = "call"
    /\ \E k \in 0..MaxData, n \in (-1)..MaxSplit :
         /\ call' = [data |-> [i \in 1..k |-> ByteAt(i)], n |-> n]
         /\ ret' = split_bytes_into_chunks([i \in 1..k |-> ByteAt(i)], n)
    /\ pc' = "returned"
    /\ UNCHANGED pipelineVars

SpecSplit == InitCall /\ [][CallSplit]_vars

HeaderIndexes == {0, 1, 2, 10, 999, 9999, 10000, 12345}
HeaderTotals == {3, 10, 9999, 10000}
HeaderLengths == {0, 1, 12345678, 99999999, 100000000}

\* build_header(index, total, length); the function raises nothing
CallBuildHeader ==
    /\ pc = "call"
    /\ \E i \in HeaderIndexes, t \in HeaderTotals, l \in HeaderLengths :
         /\ call' = [index |-> i, total |-> t, length |-> l]
         /\ ret' = [err |-> None, header |-> build_header(i, t, l)]
    /\ pc' = "returned"
    /\ UNCHANGED pipelineVars

SpecHeader == InitCall /\ [][CallBuildHeader]_vars

\* the carriers and payloads handed to embed_lsb
EmbedSizes == {<<1, 2>>, <<2, 3>>, <<3, 3>>}
EmbedBytes == {0, 165, 255}
RECURSIVE BytesUpTo(_)
BytesUpTo(n) ==
    IF n = 0 THEN {<<>>}
    ELSE BytesUpTo(n - 1)
         \cup {Append(b, x) : b \in {c \in BytesUpTo(n - 1) : Len(c) = n - 1},
                              x \in EmbedBytes}

\* embed_lsb(img, payload, channels)
CallEmbed ==
    /\ pc = "call"
    /\ \E k \in 1..2, wh \in EmbedSizes, b \in BytesUpTo(MaxPayload), c \in 1..3 :
         /\ call' = [img |-> Carrier(k, wh[1], wh[2]), payload |-> b, channels |-> c]
         /\ ret' = embed_lsb(Carrier(k, wh[1], wh[2]), b, c)
    /\ pc' = "returned"
    /\ UNCHANGED pipelineVars

SpecEmbed == InitCall /\ [][CallEmbed]_vars

\* the images handed to extract_header_and_payload_from_image: a header
\* declaring a length, followed by 0 to MaxPayload bytes, embedded in a carrier;
\* and the probe windows (the parameter max_header_bytes) it is called with
ExtractSizes == {<<8, 8>>, <<8, 9>>, <<10, 10>>}
DeclaredLengths == {0, 1, 3, 4, 13, 14, 99999999, 100000000}
WindowArgs == {8, 11, 12, 16, 24, max_header_bytes}

\* extract_header_and_payload_from_image(img_path, max_header_bytes)
CallExtract ==
    /\ pc = "call"
    /\ \E wh \in ExtractSizes, i \in 1..2, l \in DeclaredLengths,
          d \in 0..MaxPayload, win \in WindowArgs :
         LET data == [k \in 1..d |-> ByteAt(k)]
             e == embed_lsb(Carrier(i, wh[1], wh[2]), build_header(i, 3, l) \o data, 3)
         IN  /\ e.err = None
             /\ call' = [file |-> e.img, max_header_bytes |-> win,
                         header |-> build_header(i, 3, l), length |-> l, data |-> data]
             /\ ret' = extract_header_and_payload_from_image(e.img, win)
    /\ pc' = "returned"
    /\ UNCHANGED pipelineVars

SpecExtract == InitCall /\ [][CallExtract]_vars

\* images whose header no run of the embed stage wrote: any three numbers in
\* the fields of the header, followed by 0 to MaxPayload bytes
ForgedIndexes == {-1, 0, 1, 3, 4}
ForgedTotals == {0, 3}
ForgedLengths == {-1, 0, 1, 2}

\* extract_header_and_payload_from_image(img_path) on such an image
CallExtractForged ==
    /\ pc = "call"
    /\ \E wh \in ExtractSizes, i \in ForgedIndexes, t \in ForgedTotals,
          l \in ForgedLengths, d \in 0..MaxPayload :
         LET data == [k \in 1..d |-> ByteAt(k)]
             e == embed_lsb(Carrier(1, wh[1], wh[2]), build_header(i, t, l) \o data, 3)
         IN  /\ e.err = None
             /\ call' = [file |-> e.img, max_header_bytes |-> max_header_bytes,
                         header |-> build_header(i, t, l), index |-> i, total |-> t,
                         length |-> l, data |-> data]
             /\ ret' = extract_header_and_payload_from_image(e.img, max_header_bytes)
    /\ pc' = "returned"
    /\ UNCHANGED pipelineVars

SpecForged == InitCall /\ [][CallExtractForged]_vars

\* the orders in which glob may list the n fragment files of a split: the
\* ascending order turned by r places, as it is or reversed
GlobOrder(n, r, reversed) ==
    [k \in 1..n |->
        PartName((((IF reversed THEN n - k ELSE k - 1) + r) % n) + 1)]

\* lines 116 and 126-153 of the embed stage on the fragment files of a split
\* and carriers that are all large enough: the fragment files are sorted, the
\* file at position idx gets index idx, the carrier at position idx and an
\* output name made from idx; a carrier that cannot be found (position gone,
\* 0 for none) is reported and skipped, and the stage ends with exit code 0
EmbedAll(listing, gone) ==
    LET parts == SortedNatural(listing)
        n == Len(parts)
        done == [j \in 1..(IF gone \in 1..n THEN n - 1 ELSE n) |->
                    IF gone = 0 \/ j < gone THEN j ELSE j + 1]
    IN  [exit |-> 0,
         stego |-> [j \in 1..Len(done) |->
                      [part |-> parts[done[j]], index |-> done[j], total |-> n,
                       carrier |-> done[j], out_name |-> OutName(done[j], done[j])]]]

CallEmbedAll ==
    /\ pc = "call"
    /\ \E n \in 3..MaxFiles, r \in 0..2, reversed \in BOOLEAN, gone \in 0..3 :
         /\ call' = [n |-> n, listing |-> GlobOrder(n, r, reversed), gone |-> gone]
         /\ ret' = EmbedAll(GlobOrder(n, r, reversed), gone)
    /\ pc' = "returned"
    /\ UNCHANGED pipelineVars

SpecEmbedAll == InitCall /\ [][CallEmbedAll]_vars

\* the mappings index -> bytes handed to reconstruct_script
PieceOf(k, v) == IF v = 0 THEN <<>> ELSE <<k % 256, v>>
PieceMaps ==
    {[k \in K |-> PieceOf(k, v)] : K \in SUBSET ((-1)..MaxKey), v \in 0..1}

\* reconstruct_script(pieces, out_script)
CallReconstruct ==
    /\ pc = "call"
    /\ \E m \in PieceMaps :
         /\ call' = [pieces |-> m]
         /\ ret' = reconstruct_script(m)
    /\ pc' = "returned"
    /\ UNCHANGED pipelineVars

SpecReassemble == InitCall /\ [][CallReconstruct]_vars


(***************************************************************************)
(* Properties.                                                             *)
(***************************************************************************)
MaxOf(S) == CHOOSE m \in S : \A k \in S : k <= m
Ascending(q) == \A i \in 1..(Len(q) - 1) : q[i] < q[i + 1]
Elements(q) == {q[i] : i \in 1..Len(q)}
\* the indices of 1..max(keys) that are no key
Gaps(keys) == {i \in 1..MaxOf(keys) : i \notin keys}
\* the scan stage went through its loop and ended
ScanEnded == pc = "end" /\ visited # {}
AllStego == {OutName(i, i) : i \in 1..N}

\* C1 (round trip): when the split in N >= 3 fragments and the embedding with
\* 1, 2 or 3 channels both succeeded, every fragment has its stego image and
\* the scan visited exactly these images, in whatever order, the
\* reconstructed file holds exactly the bytes of the source.
C1_RoundTrip ==
    (/\ ScanEnded
     /\ N >= 3 /\ splitExit = 0
     /\ channels \in 1..3 /\ embedExit = 0
     /\ DOMAIN dstDir = AllStego
     /\ visited = AllStego)
    => out_script = [exists |-> TRUE, data |-> src.data]

C1_Witness ==
    /\ ScanEnded /\ N >= 3 /\ channels = 1 /\ embedExit = 0
    /\ visited = AllStego /\ DOMAIN dstDir = AllStego
    /\ src.data # <<>>
    /\ out_script.exists /\ out_script.data = src.data

\* C2 (capacity rejection): an iteration of the embed loop on a readable
\* carrier of w x h pixels ends the stage with the capacity error (exit 6)
\* exactly when 8 * L > w * h * channels, L the bytes of header plus fragment;
\* then the stego directory is left as it was, otherwise the stego image of
\* this fragment is written.
C2_CapacityRejection ==
    [][(pc = "embed_loop" /\ idx <= total /\ images[idx].kind = "image")
       => LET L == Len(build_header(idx, total, Len(partsDir.files[idx])))
                       + Len(partsDir.files[idx])
              fails == embedExit' = 6
          IN  /\ fails <=> (8 * L > images[idx].w * images[idx].h * channels)
              /\ fails => dstDir' = dstDir
              /\ ~fails => /\ embedExit' = NotRun
                           /\ DOMAIN dstDir' = DOMAIN dstDir \cup {OutName(idx, idx)}
      ]_vars

\* 28 bytes of header and payload refused by an 8x8 carrier with 3 channels
C2_Witness ==
    /\ embedExit = 6 /\ channels = 3 /\ src.data = Hello /\ N = 3
    /\ idx = 1 /\ images[1].w = 8 /\ images[1].h = 8
    /\ dstDir = EmptyMap

\* C3 (missing fragments): on a non-empty mapping, reconstruct_script fails
\* with the missing-fragment error exactly when some index of 1..max(keys) is
\* no key, the list it reports is the ascending list of exactly these indices,
\* and it succeeds exactly when there is none.
C3_MissingFragments ==
    (pc = "returned" /\ DOMAIN call.pieces # {})
    => /\ (ret.err = "missing") <=> (Gaps(DOMAIN call.pieces) # {})
       /\ (ret.err = None) <=> (Gaps(DOMAIN call.pieces) = {})
       /\ ret.err = "missing" =>
            /\ Ascending(ret.missing)
            /\ Elements(ret.missing) = Gaps(DOMAIN call.pieces)

C3_Witness ==
    /\ pc = "returned" /\ DOMAIN call.pieces = {1, 3}
    /\ ret.err = "missing" /\ ret.missing = <<2>>

MagicBits ==
    [k \in 1..(8 * Len(MAGIC)) |->
        (MAGIC[((k - 1) \div 8) + 1] \div (2 ^ (7 - ((k - 1) % 8)))) % 2]

\* the least-significant bits of the pixels start with the magic constant
MagicInPixels(px) ==
    /\ 3 * Len(px) >= Len(MagicBits)
    /\ [k \in 1..Len(MagicBits) |->
            px[((k - 1) \div 3) + 1][((k - 1) % 3) + 1] % 2] = MagicBits

\* the file is an image that carries the magic constant
CarriesMagic(file) == file.kind = "image" /\ MagicInPixels(file.px)

\* C5 (duplicates): an iteration of the scan loop never changes or removes a
\* payload already kept; on an image whose index is already recovered it
\* leaves the reassembly state as it is and prints the duplicate warning; on an
\* image with a new index it keeps the payload of that image.
C5_FirstWins ==
    [][(pc = "scan_loop" /\ visited' # visited)
       => /\ \A i \in DOMAIN pieces : i \in DOMAIN pieces' /\ pieces'[i] = pieces[i]
          /\ (img'[1] = "stego" /\ img'[2] \in DOMAIN pieces)
               => /\ pieces' = pieces /\ expected_total' = expected_total
                  /\ [msg |-> "doublon", n |-> img'[2]] \in log'
          /\ (img' = <<"extra", 5, 0>> /\ 2 \in DOMAIN pieces)
               => /\ pieces' = pieces /\ expected_total' = expected_total
                  /\ [msg |-> "doublon", n |-> 2] \in log'
          /\ (img' = <<"extra", 5, 0>> /\ 2 \notin DOMAIN pieces)
               => (2 \in DOMAIN pieces' /\ pieces'[2] = <<88>>)
          /\ (img'[1] = "stego" /\ img'[2] \notin DOMAIN pieces)
               => /\ img'[2] \in DOMAIN pieces'
                  /\ pieces'[img'[2]] = partsDir.files[img'[2]]
      ]_vars

\* fragment 2 of the split was kept and the other image with index 2 refused
C5_Witness ==
    /\ pc = "scan_loop" /\ img = <<"extra", 5, 0>>
    /\ OutName(2, 2) \in visited
    /\ [msg |-> "doublon", n |-> 2] \in log
    /\ pieces[2] = partsDir.files[2] /\ pieces[2] # <<88>>

\* C6 (non-carriers): an iteration of the scan loop on a file that does not
\* carry the magic constant (unreadable and too-small files included) finds no
\* fragment, changes nothing of the reassembly state and leaves the scan in its
\* loop; a stego image visited after any such files still has its fragment
\* recovered.
C6_NonCarrier ==
    [][(pc = "scan_loop" /\ visited' # visited)
       => /\ ~CarriesMagic(FileOf(img'))
               => /\ pieces' = pieces /\ expected_total' = expected_total
                  /\ pc' = "scan_loop" /\ scanExit' = scanExit /\ log' = {}
          /\ (img'[1] = "stego" /\ img'[2] \notin DOMAIN pieces)
               => /\ img'[2] \in DOMAIN pieces'
                  /\ pieces'[img'[2]] = partsDir.files[img'[2]]
      ]_vars

\* fragment 1 recovered after an unreadable file and a 1x1 image
C6_Witness ==
    /\ pc = "scan_loop" /\ img = OutName(1, 1)
    /\ visited = {<<"extra", 1, 0>>, <<"extra", 2, 0>>, OutName(1, 1)}
    /\ DOMAIN pieces = {1} /\ pieces[1] = partsDir.files[1]

C8_AllButLastFull ==
    (pc = "returned" /\ call.n >= 3)
    => /\ ret.err = None
       /\ Len(ret.chunks) = call.n
       /\ Join(ret.chunks) = call.data
       /\ \A k \in 1..(call.n - 1) :
            Len(ret.chunks[k]) = Ceil(Len(call.data), call.n)
       /\ Len(ret.chunks[call.n]) <= Ceil(Len(call.data), call.n)
       /\ call.data = <<>> => \A k \in 1..call.n : ret.chunks[k] = <<>>

\* C8 (split shape), amended: for n >= 3, split returns exactly n chunks whose
\* concatenation in order is data; no chunk is longer than ceil(len(data)/n)
\* and every chunk followed by a non-empty chunk has exactly that length, so
\* only trailing chunks are shorter or empty; when data is empty all n chunks
\* are empty.
C8_SplitShape ==
    (pc = "returned" /\ call.n >= 3)
    => /\ ret.err = None
       /\ Len(ret.chunks) = call.n
       /\ Join(ret.chunks) = call.data
       /\ \A k \in 1..call.n :
            Len(ret.chunks[k]) <= Ceil(Len(call.data), call.n)
       /\ \A k \in 1..(call.n - 1) :
            ret.chunks[k + 1] # <<>>
                => Len(ret.chunks[k]) = Ceil(Len(call.data), call.n)
       /\ call.data = <<>> => \A k \in 1..call.n : ret.chunks[k] = <<>>

\* 5 bytes in 4 chunks: 2, 2, 1 and 0 bytes
C8_Witness ==
    /\ pc = "returned" /\ call.n = 4 /\ Len(call.data) = 5
    /\ Len(ret.chunks[3]) = 1 /\ Len(ret.chunks[4]) = 0

\* C9 (split validation): a split asked for fewer than 3 fragments fails with
\* the validation error; no fragment file and no digest file is written.
C9_SplitValidation ==
    (pc # "split" /\ splitExit # NotRun /\ N < 3)
    => /\ splitErr = "ValueError" /\ splitExit # 0
       /\ partsDir = NoDir /\ shaFile = NoFile

C9_Witness ==
    /\ pc # "split" /\ N = 2 /\ src.exists /\ src.data # <<>>
    /\ splitErr = "ValueError" /\ partsDir = NoDir

\* C10 (header limits): build_header fails when index > 9999, total > 9999 or
\* length > 99999999, so every header returned is exactly 24 bytes long.
C10_HeaderLimits ==
    pc = "returned"
    => /\ (call.index > 9999 \/ call.total > 9999 \/ call.length > 99999999)
            => ret.err # None
       /\ ret.err = None => Len(ret.header) = 24


\* the keys of a mapping in ascending order
RECURSIVE AscendingKeys(_)
AscendingKeys(S) ==
    IF S = {} THEN <<>>
    ELSE LET m == CHOOSE x \in S : \A y \in S : x <= y
         IN  <<m>> \o AscendingKeys(S \ {m})

\* C11 (reassembly order): whenever reconstruct_script succeeds on a mapping,
\* the bytes it writes are the payloads of all the fragments of the mapping,
\* each once, joined in ascending order of index.
C11_AllInOrder ==
    (pc = "returned" /\ ret.err = None)
    => ret.blob = Join([k \in 1..Cardinality(DOMAIN call.pieces) |->
                           call.pieces[AscendingKeys(DOMAIN call.pieces)[k]]])


\* C12 (advisory digest check): when the scan stage compared the digest of the
\* reconstructed bytes with the persisted one, it printed the failure exactly
\* when they differ; after a failed comparison the reconstructed file is
\* written with the reassembled bytes, the script is run exactly when --run
\* was given, and without --run the exit code is 0.
C12_AdvisoryDigest ==
    /\ (ScanEnded /\ out_script.exists /\ verification # None)
         => (verification = "ECHEC"
                <=> compute_sha256_bytes(out_script.data) # shaFile)
    /\ (ScanEnded /\ verification = "ECHEC")
         => /\ out_script = [exists |-> TRUE, data |-> reconstruct_script(pieces).blob]
            /\ executed = run_after
            /\ ~run_after => scanExit = 0

\* a mismatch was printed and the script run all the same
C12_Witness ==
    /\ ScanEnded /\ verification = "ECHEC" /\ run_after /\ executed
    /\ out_script.exists /\ out_script.data # src.data /\ scanExit = 0


\* the images a run of the distribute stage places: all of them in the random
\* and round-robin modes, those with a non-empty target in the mapping mode
PlacedImages ==
    {f \in DOMAIN dstDir :
        mode = "mapping" => (f \in DOMAIN mapping_dict /\ mapping_dict[f] # "")}

\* C13 (dry run): a dry run of the distribute stage that went through its loop
\* printed a destination for every image it places, and it created no
\* directory and wrote no file.
C13_DryRunNoWrite ==
    (pc = "dist_end" /\ dry /\ distExit = 0)
    => /\ {plan[k].name : k \in 1..Len(plan)} = PlacedImages
       /\ written = NoWrite


\* C14 (placement determinism): two runs of the distribute stage in random
\* mode with the same seed over the same stego directory print the same
\* destination for every image both of them place, and the same placements
\* when both end without error, whether or not one of them is a dry run.
C14_SameSeedSamePlan ==
    (/\ pc = "dist_end" /\ previous # <<>>
     /\ mode = "random" /\ previous[1].mode = "random"
     /\ seed # <<>> /\ previous[1].seed = seed)
    => /\ \A k \in 1..Min(Len(plan), Len(previous[1].plan)) :
            plan[k] = previous[1].plan[k]
       /\ (distExit = 0 /\ previous[1].distExit = 0) => plan = previous[1].plan

\* a dry run and a run that copies, both with the same seed, placed every image
\* alike, and not all in one directory
C14_Witness ==
    /\ pc = "dist_end" /\ previous # <<>>
    /\ mode = "random" /\ previous[1].mode = "random"
    /\ seed # <<>> /\ previous[1].seed = seed
    /\ previous[1].dry /\ ~dry
    /\ distExit = 0 /\ previous[1].distExit = 0
    /\ Len(plan) = MaxParts /\ plan = previous[1].plan
    /\ plan[1].dest # plan[2].dest


\* the failure category of an exception of the split stage
SplitCategory(exc) ==
    IF exc = "ValueError" THEN "bad argument" ELSE "missing input"

\* C15 (exit codes), split stage: a failed split ends with a non-zero exit
\* code, and that code is one with which no failure of another category
\* (bad argument, missing input) ends the stage.
C15_DistinctExitCodes ==
    (pc # "split" /\ splitErr # None)
    => /\ splitExit # 0
       /\ \A e \in SplitFailures :
            SplitCategory(e) # SplitCategory(splitErr) => UncaughtExit(e) # splitExit


\* C16 (channel selection): a successful embed_lsb with c channels of a
\* payload that fits in width * height * c bits stores payload bit k in the
\* least-significant bit of channel (k mod c) of pixel (k div c), and leaves
\* the channels after the first c of every pixel as they were.
C16_ChannelSelection ==
    (/\ pc = "returned" /\ ret.err = None
     /\ 8 * Len(call.payload) <= call.img.w * call.img.h * call.channels)
    => /\ \A k \in 0..(8 * Len(call.payload) - 1) :
            ret.img.px[(k \div call.channels) + 1][(k % call.channels) + 1] % 2
                = bytes_to_bits(call.payload)[k + 1]
       /\ \A p \in 1..Len(call.img.px) : \A ch \in (call.channels + 1)..3 :
            ret.img.px[p][ch] = call.img.px[p][ch]


\* C17 (embed frame): a successful embed_lsb returns an image of the carrier's
\* width and height in which every channel value has the carrier's upper seven
\* bits and, from channel position 8 * len(payload) on (pixel by pixel, R, G,
\* B), the carrier's least-significant bit; the image passed in is as it was.
C17_EmbedFrame ==
    (pc = "returned" /\ ret.err = None)
    => /\ ret.img.w = call.img.w /\ ret.img.h = call.img.h
       /\ Len(ret.img.px) = Len(call.img.px)
       /\ \A p \in 1..Len(call.img.px) : \A ch \in 1..3 :
            /\ ret.img.px[p][ch] \div 2 = call.img.px[p][ch] \div 2
            /\ (3 * (p - 1) + (ch - 1) >= 8 * Len(call.payload))
                  => ret.img.px[p][ch] = call.img.px[p][ch]
       /\ ret.arg = call.img

\* a payload of one byte or more changed some bit and left channels after it
C17_Witness ==
    /\ pc = "returned" /\ ret.err = None
    /\ Len(call.payload) >= 1
    /\ 8 * Len(call.payload) < 3 * Len(call.img.px)
    /\ ret.img # call.img
    /\ ret.img.px[Len(call.img.px)][3] % 2 = 1


\* C18 (bounded read): when the scan has just taken a fragment from a stego
\* image, the extraction read no least-significant bit at a position at or
\* beyond 8 * (header length + declared length): the bits its probe read, from
\* position 0 on, are no more than that.
C18_BoundedRead ==
    (pc = "scan_loop" /\ img # NoImage /\ img[1] = "stego"
     /\ [msg |-> "trouve", n |-> img[2]] \in log)
    => ProbeBits(Flatten(FileOf(img).px), max_header_bytes)
           <= 8 * (Len(build_header(img[2], expected_total[1], Len(pieces[img[2]])))
                   + Len(pieces[img[2]]))


\* the header embedded in the image ends within twice the probe window, so
\* its four delimiters are seen in the first read or in the second
HeaderSeen == 2 * call.max_header_bytes >= Len(call.header)
\* the channel values of the image
Available == 3 * Len(call.file.px)

\* C19 (declared-length check): when the header of the image is parsed and
\* 8 * (header length + declared length) exceeds the number of channel values
\* of the image, the extraction returns None; otherwise it returns a payload
\* of exactly the declared length, starting with the bytes embedded after the
\* header.
C19_DeclaredLength ==
    (pc = "returned" /\ HeaderSeen)
    => IF 8 * (Len(call.header) + call.length) > Available
       THEN ret = NoFragment
       ELSE /\ ret.found
            /\ Len(ret.data) = call.length
            /\ \A k \in 1..Min(call.length, Len(call.data)) : ret.data[k] = call.data[k]

\* a header declaring 14 bytes in an image of 300 channel values: 304 bits
C19_Witness ==
    /\ pc = "returned" /\ HeaderSeen
    /\ call.length = 14 /\ Available = 300 /\ Len(call.header) = 24
    /\ ret = NoFragment

\* C20 (single retry): a fragment is returned only if the header ends within
\* twice the probe window; a header that ends after the window but within
\* twice the window is parsed by the second read (and the fragment returned
\* when the declared length fits the image); a header that ends after twice
\* the window gives None.
C20_SingleRetry ==
    pc = "returned"
    => /\ ret.found => HeaderSeen
       /\ (/\ call.max_header_bytes < Len(call.header)
           /\ HeaderSeen
           /\ 8 * (Len(call.header) + call.length) <= Available)
            => (ret.found /\ Len(ret.data) = call.length)
       /\ ~HeaderSeen => ret = NoFragment

\* a window of 12 bytes: the header of 24 bytes is read by the second read
C20_Witness ==
    /\ pc = "returned" /\ call.max_header_bytes = 12 /\ Len(call.header) = 24
    /\ ret.found /\ call.length = 1 /\ ret.data = call.data


\* C21 (round-robin placement): a run in round-robin mode that went through
\* its loop placed the image at 0-based position i of the listing in the
\* destination at position i mod 4 of the four destinations ensure_dirs
\* supplies; with four images or more every supplied destination received one.
C21_RoundRobin ==
    (pc = "dist_end" /\ mode = "roundrobin" /\ distExit = 0)
    => /\ Len(plan) = Cardinality(DOMAIN dstDir)
       /\ \A k \in 1..Len(plan) :
            /\ plan[k].name = list_stego_images(dstDir)[k]
            /\ plan[k].dest = DestsMapOrder[((k - 1) % Len(DestsMapOrder)) + 1]
       /\ Len(plan) >= Len(DestsMapOrder)
            => {plan[k].dest : k \in 1..Len(plan)} = DestsMapKeys


\* the fragment a file of the tree was made to carry: the stego images carry
\* the fragments of the split, three of the other images carry one of their own
Carried(f) ==
    IF f[1] = "stego"
    THEN [found |-> TRUE, idx |-> f[2], tot |-> total, data |-> partsDir.files[f[2]]]
    ELSE IF f[2] = 5 THEN [found |-> TRUE, idx |-> 2, tot |-> 3, data |-> <<88>>]
    ELSE IF f[2] = 6 THEN [found |-> TRUE, idx |-> 4, tot |-> 5, data |-> <<89>>]
    ELSE IF f[2] = 8 THEN [found |-> TRUE, idx |-> 3, tot |-> 4, data |-> <<91>>]
    ELSE NoFragment

\* C22 (total inconsistency): in the scan loop the total recorded is the one
\* of the first fragment found and is never changed afterwards; a fragment
\* whose total differs prints the warning, is kept when its index is new, and
\* leaves the scan in its loop; after the loop the outcome is decided by the
\* fragments kept alone: exit 3 with none, exit 4 with a gap below the highest
\* index, the reconstructed file otherwise, whatever the total recorded.
C22_TotalInconsistency ==
    [][/\ (pc = "scan_loop" /\ visited' # visited)
          => \A res \in {Carried(img')} :
                 /\ expected_total # <<>> => expected_total' = expected_total
                 /\ (res.found /\ expected_total = <<>>)
                      => expected_total' = <<res.tot>>
                 /\ (res.found /\ expected_total # <<>> /\ expected_total # <<res.tot>>)
                      => /\ [msg |-> "total incoherent", n |-> res.tot] \in log'
                         /\ res.idx \notin DOMAIN pieces
                              => /\ DOMAIN pieces' = DOMAIN pieces \cup {res.idx}
                                 /\ pieces'[res.idx] = res.data
                         /\ pc' = "scan_loop" /\ scanExit' = scanExit
       /\ (pc = "scan_loop" /\ pc' = "end")
          => /\ expected_total' = expected_total /\ pieces' = pieces
             /\ scanExit' = 3 <=> DOMAIN pieces = {}
             /\ scanExit' = 4 <=> (DOMAIN pieces # {} /\ Gaps(DOMAIN pieces) # {})
             /\ out_script'.exists
                  <=> (DOMAIN pieces # {} /\ Gaps(DOMAIN pieces) = {})
      ]_vars

\* fragments 1 and 2 of a split in 3 and a fragment 3 that declares a total
\* of 4, visited after one of them: the reconstruction succeeded
C22_Witness ==
    /\ ScanEnded /\ visited = {OutName(1, 1), OutName(2, 2), <<"extra", 8, 0>>}
    /\ expected_total = <<3>> /\ DOMAIN pieces = {1, 2, 3} /\ pieces[3] = <<91>>
    /\ out_script.exists /\ scanExit = 0


\* C23 (not-found is fatal): a split that found no source file ended with a
\* failure and wrote nothing; an embed stage that found no source image in
\* its image directory ended with a failure and wrote nothing; an embed stage
\* that could not open a listed source image left its loop with a failure, so
\* a stage that printed its completion message met no such image.
C23_NotFoundFatal ==
    /\ splitErr = "FileNotFoundError"
         => (splitExit \notin {NotRun, 0} /\ partsDir = NoDir /\ shaFile = NoFile)
    /\ embedExit = 5 => (pc = "end" /\ dstDir = EmptyMap)
    /\ (\E m \in log : m.msg = "introuvable")
         => (pc # "embed_loop" /\ embedExit \notin {NotRun, 0})
    /\ embedExit = 0 => \A k \in 1..total : images[k].kind # "vanished"


\* C24 (fragment invariant at recovery): every fragment the extraction
\* returns, whatever the image holds, has 1 <= index <= total, a declared
\* length of 0 or more, and a payload of exactly the declared length.
C24_FragmentInvariant ==
    (pc = "returned" /\ ret.found)
    => /\ 1 <= ret.idx /\ ret.idx <= ret.tot
       /\ call.length >= 0
       /\ Len(ret.data) = call.length


\* C25 (index assignment at embed): an embed stage that ended with exit code 0
\* on the n >= 3 fragment files of a split, n >= 10 included, embedded the
\* fragment written as number i with index i and total n; each index 1..n is
\* carried exactly once, each in a carrier and an output file of its own.
C25_IndexAssignment ==
    (pc = "returned" /\ ret.exit = 0)
    => /\ \A i \in 1..call.n :
            /\ Cardinality({j \in 1..Len(ret.stego) : ret.stego[j].index = i}) = 1
            /\ \A j \in 1..Len(ret.stego) :
                 ret.stego[j].index = i
                    => (ret.stego[j].part = PartName(i) /\ ret.stego[j].total = call.n)
       /\ \A j, k \in 1..Len(ret.stego) :
            j # k => /\ ret.stego[j].carrier # ret.stego[k].carrier
                     /\ ret.stego[j].out_name # ret.stego[k].out_name


\* C26 (failed reassembly leaves no output): when the scan stage ends with no
\* fragment kept, or with an index below the highest one kept missing, it
\* ends with a failure (exit 3 and exit 4), the reconstructed file is as it
\* was before (absent, or the file an earlier run left), no digest comparison
\* is printed and the script is not run, whether or not --run was given.
C26_FailedReassembly ==
    [][(/\ pc = "scan_loop" /\ pc' = "end"
        /\ (DOMAIN pieces = {} \/ Gaps(DOMAIN pieces) # {}))
       => /\ scanExit' = (IF DOMAIN pieces = {} THEN 3 ELSE 4)
          /\ out_script' = out_script
          /\ verification' = None
          /\ ~executed'
      ]_vars

\* fragments 1 and 3 kept, --run given, a digest and an earlier file present
C26_Witness ==
    /\ pc = "end" /\ DOMAIN pieces = {1, 3} /\ run_after /\ shaFile # NoFile
    /\ scanExit = 4 /\ out_script = EarlierScript
    /\ verification = None /\ ~executed


====
